---- MODULE Spec2Model ----
(***************************************************************************)
(* The savana relay server (src/unnamed/part_000): an Express application  *)
(* with a global JSON body parser, three relay endpoints that forward to   *)
(* Retell AI and Stripe, and the Stripe webhook endpoint.                  *)
(*                                                                         *)
(* Every request lives in a slot.  A relay handler is an async function:   *)
(* it runs from its entry up to its first await (the outbound call), and   *)
(* resumes when the provider's outcome arrives; other requests interleave  *)
(* in between.  The webhook handler and the health check are synchronous.  *)
(***************************************************************************)
EXTENDS Integers, Sequences, FiniteSets, TLC

\* Number of requests the model follows, concurrently and in sequence.
MaxReq == 2

Slots == 1..MaxReq

----------------------------------------------------------------------------
(* Values.                                                                 *)

\* JavaScript's undefined: a property that is not there.
Absent == "<undefined>"

\* A number where a string is expected (JSON 123 instead of "123").
NumberValue == "<number 15551234>"

\* Property names of the JSON objects clients and Stripe send.
Fields ==
  {"type", "data", "userPhone", "userId", "message", "sessionId",
   "priceId", "userEmail", "planName"}

\* The object with the properties of record `r` and no others.
Obj(r) == [f \in Fields |-> IF f \in DOMAIN r THEN r[f] ELSE Absent]

EmptyDoc == [f \in Fields |-> Absent]

\* Property names of the bodies the server sends.
RespFields ==
  {"error", "details", "message", "success", "callId", "response",
   "sessionId", "received", "status", "text"}

Body(r) == [f \in RespFields |-> IF f \in DOMAIN r THEN r[f] ELSE Absent]

\* A request body as transmitted.  kind "json": the bytes serialise `doc`,
\* with (ws) or without extra whitespace between the tokens, so two bodies
\* of one doc are different bytes.  kind "garbage": bytes that are no JSON.
JsonBytes(doc, ws) == [kind |-> "json", doc |-> doc, ws |-> ws]
Garbage == [kind |-> "garbage", doc |-> EmptyDoc, ws |-> FALSE]
NoRaw == [kind |-> "none", doc |-> EmptyDoc, ws |-> FALSE]
\* What string coercion makes of a parsed object: "[object Object]".
ObjectObject == [kind |-> "coerced", doc |-> EmptyDoc, ws |-> FALSE]

\* JSON.parse of bytes: the whitespace is gone from the result.
JSONparse(raw) ==
  IF raw.kind = "json"
    THEN [ok |-> TRUE, value |-> raw.doc]
    ELSE [ok |-> FALSE, value |-> EmptyDoc]

\* The stripe-signature header.  kind "v1": t=<timestamp>,v1=HMAC(key,
\* timestamp.over); expired: the timestamp is older than the tolerance at
\* the moment the request is received.
NoSig == [kind |-> "none", key |-> Absent, over |-> NoRaw, expired |-> FALSE]
BadSig == [kind |-> "malformed", key |-> Absent, over |-> NoRaw, expired |-> FALSE]
V1Sig(key, over, expired) ==
  [kind |-> "v1", key |-> key, over |-> over, expired |-> expired]

\* req.body as the middleware leaves it.
NoPayload == [kind |-> "none", doc |-> EmptyDoc, raw |-> NoRaw]
ParsedBody(doc) == [kind |-> "object", doc |-> doc, raw |-> NoRaw]
BufferBody(raw) == [kind |-> "buffer", doc |-> EmptyDoc, raw |-> raw]

NoReq == [endpoint |-> "none", ct |-> Absent, raw |-> NoRaw, sig |-> NoSig]

----------------------------------------------------------------------------
(* Process-wide configuration, read from the environment at startup.       *)

StartupEnv ==
  [STRIPE_SECRET_KEY |-> "sk_live",
   STRIPE_WEBHOOK_SECRET |-> "whsec_live",
   RETELL_API_KEY |-> "retell_key",
   RETELL_PHONE_NUMBER |-> "+15550000",
   RETELL_AGENT_ID |-> "agent_1",
   RETELL_LLM_ID |-> "llm_1"]

VARIABLES
  env,    \* process.env, as the handlers see it
  slot    \* slot[i]: the i-th request, its progress and what was done for it

vars == <<env, slot>>

IdleSlot ==
  [pc |-> "idle", req |-> NoReq, calls |-> 0, sent |-> <<>>,
   branch |-> "none", acked |-> FALSE, uncaught |-> FALSE,
   payload |-> NoPayload, verr |-> "none", exc |-> Absent,
   outcome |-> "none"]

\* What one run of handler code (to its next await, or to its end) does.
Effect(next, calls, sends) ==
  [next |-> next, calls |-> calls, sends |-> sends, branch |-> "none",
   acked |-> FALSE, uncaught |-> FALSE, payload |-> NoPayload,
   verr |-> "none", exc |-> Absent]

Response(status, by, body) == [status |-> status, by |-> by, body |-> body]

----------------------------------------------------------------------------
(* Middleware.                                                             *)

JsonSyntaxText == "Unexpected token in JSON"

\* app.use(express.json()): registered for every route, the webhook's too.
\* A body of type application/json is read and parsed (req._body is set);
\* bytes that are no JSON end the request in Express's error handler with
\* status 400.  Any other type is left alone, with req.body = {}.
ExpressJson(req) ==
  IF req.ct = "application/json"
    THEN LET p == JSONparse(req.raw) IN
         IF p.ok
           THEN [err |-> FALSE, parsed |-> TRUE, body |-> ParsedBody(p.value)]
           ELSE [err |-> TRUE, parsed |-> FALSE, body |-> NoPayload]
    ELSE [err |-> FALSE, parsed |-> FALSE, body |-> ParsedBody(EmptyDoc)]

\* express.raw({type: 'application/json'}) on the webhook route: it skips a
\* request whose body an earlier parser has read (req._body), and otherwise
\* leaves the bytes of an application/json body in req.body as a Buffer.
ExpressRaw(req, st) ==
  IF st.err \/ st.parsed
    THEN st
    ELSE IF req.ct = "application/json"
           THEN [err |-> FALSE, parsed |-> TRUE, body |-> BufferBody(req.raw)]
           ELSE st

\* Express's final error handler, for an error the route did not catch.
ExpressError(status, text) == Response(status, "express", Body([text |-> text]))

----------------------------------------------------------------------------
(* Stripe webhook.                                                         *)

KnownTags ==
  {"checkout.session.completed", "invoice.payment_succeeded",
   "customer.subscription.deleted"}

\* The characters the signature is computed over: the Buffer's bytes, or
\* the string a parsed object coerces to.
SignedContent(payload) ==
  IF payload.kind = "buffer" THEN payload.raw ELSE ObjectObject

\* constructEvent as it would be if the signature were compared over the
\* parsed document, re-serialised, instead of over the characters given.
ConstructEvent_ComparesDocuments(payload, sig, secret) ==
  IF sig.kind = "none"
    THEN [ok |-> FALSE, reason |-> "No stripe-signature header value was provided", event |-> EmptyDoc]
  ELSE IF sig.kind = "malformed"
    THEN [ok |-> FALSE, reason |-> "Unable to extract timestamp and signatures from header", event |-> EmptyDoc]
  ELSE IF sig.key # secret \/ sig.over.doc # payload.doc
    THEN [ok |-> FALSE, reason |-> "No signatures found matching the expected signature for payload", event |-> EmptyDoc]
  ELSE IF sig.expired
    THEN [ok |-> FALSE, reason |-> "Timestamp outside the tolerance zone", event |-> EmptyDoc]
  ELSE [ok |-> TRUE, reason |-> "none", event |-> payload.doc]

\* constructEvent as it would be without any check of the header.
ConstructEvent_NoVerification(payload, sig, secret) ==
  [ok |-> TRUE, reason |-> "none", event |-> payload.doc]

\* stripe.webhooks.constructEvent(payload, header, secret): the header is
\* parsed, the HMAC of timestamp.payload under the secret is compared with
\* the header's, the timestamp is checked against the tolerance, and the
\* payload is JSON.parse'd.  Every failure is a thrown error.
ConstructEvent(payload, sig, secret) ==
  IF sig.kind = "none"
    THEN [ok |-> FALSE, reason |-> "No stripe-signature header value was provided", event |-> EmptyDoc]
  ELSE IF sig.kind = "malformed"
    THEN [ok |-> FALSE, reason |-> "Unable to extract timestamp and signatures from header", event |-> EmptyDoc]
  ELSE IF sig.key # secret \/ sig.over # SignedContent(payload)
    THEN [ok |-> FALSE, reason |-> "No signatures found matching the expected signature for payload", event |-> EmptyDoc]
  ELSE IF sig.expired
    THEN [ok |-> FALSE, reason |-> "Timestamp outside the tolerance zone", event |-> EmptyDoc]
  ELSE LET p == JSONparse(SignedContent(payload)) IN
       IF p.ok
         THEN [ok |-> TRUE, reason |-> "none", event |-> p.value]
         ELSE [ok |-> FALSE, reason |-> JsonSyntaxText, event |-> EmptyDoc]

DataTypeErrorText == "Cannot read properties of undefined (reading 'object')"

\* switch (event.type): the branch that runs, and whether it throws.
\* event.data.object of an event without data is a TypeError.
Dispatch(event) ==
  IF event["type"] = "checkout.session.completed"
    THEN [branch |-> "checkout.session.completed", threw |-> event["data"] = Absent]
  ELSE IF event["type"] \in KnownTags
    THEN [branch |-> event["type"], threw |-> FALSE]
  ELSE [branch |-> "default", threw |-> FALSE]

\* The webhook as it would be with a memory of the deliveries it has seen:
\* a delivery seen before is acknowledged without being verified again.
StripeWebhook_Deduplicates(req) ==
  IF \E j \in Slots : slot[j].pc = "done" /\ slot[j].req = req
    THEN [Effect("done", 0, <<Response(200, "handler", Body([received |-> "true"]))>>)
            EXCEPT !.acked = TRUE]
    ELSE [Effect("done", 0, <<Response(400, "handler", Body([text |-> "Webhook Error"]))>>)
            EXCEPT !.verr = "Webhook Error"]

\* app.post('/api/stripe-webhook', express.raw(...), handler), with the
\* middleware that runs before the handler.  The switch is outside the try:
\* what a branch throws reaches Express's error handler.
StripeWebhook(req) ==
  LET mw == ExpressRaw(req, ExpressJson(req)) IN
  IF mw.err
    THEN Effect("done", 0, <<ExpressError(400, JsonSyntaxText)>>)
    ELSE
      LET ev == ConstructEvent(mw.body, req.sig, env.STRIPE_WEBHOOK_SECRET) IN
      IF ~ev.ok
        THEN [Effect("done", 0, <<Response(400, "handler", Body([text |-> ev.reason]))>>)
                EXCEPT !.payload = mw.body, !.verr = ev.reason]
        ELSE
          LET d == Dispatch(ev.event) IN
          IF d.threw
            THEN [Effect("done", 0, <<ExpressError(500, DataTypeErrorText)>>)
                    EXCEPT !.payload = mw.body, !.branch = d.branch,
                           !.uncaught = TRUE, !.exc = DataTypeErrorText]
            ELSE [Effect("done", 0, <<Response(200, "handler", Body([received |-> "true"]))>>)
                    EXCEPT !.payload = mw.body, !.branch = d.branch,
                           !.acked = TRUE]

----------------------------------------------------------------------------
(* Relay endpoints.                                                        *)

\* !value of JavaScript, for the values the model sends.
Falsy(v) == v = Absent

IsString(v) == v \notin {Absent, NumberValue}

ReplaceTypeErrorText == "userPhone.replace is not a function"
FetchFailedText == "fetch failed"
RetellDiagnostic == "retell: 422 invalid to_number"
StripeDiagnostic == "stripe: No such price"

\* The catch block of /api/voice-call and /api/chat.
InternalError(text) ==
  [Effect("done", 0,
          <<Response(500, "handler",
                     Body([error |-> "Internal server error", message |-> text]))>>)
     EXCEPT !.exc = text]

\* What the awaited fetch() brings: a 2xx answer with a JSON body, a 2xx
\* answer whose body is no JSON, a non-2xx answer with a diagnostic text,
\* or a rejected promise (the network failed).
FetchOutcomes == {"ok", "ok_unparsable", "fail", "reject"}

\* What the awaited stripe.checkout.sessions.create() brings: a session, or
\* a thrown StripeError carrying the provider's message.
StripeOutcomes == {"ok", "throw"}

\* /api/voice-call, from its entry to the await of fetch().
VoiceCallEntry(req) ==
  LET mw == ExpressJson(req) IN
  IF mw.err THEN Effect("done", 0, <<ExpressError(400, JsonSyntaxText)>>)
  ELSE IF Falsy(mw.body.doc["userPhone"])
    THEN Effect("done", 0,
                <<Response(400, "handler", Body([error |-> "User phone number is required"]))>>)
  ELSE IF ~IsString(mw.body.doc["userPhone"])
    THEN InternalError(ReplaceTypeErrorText)
  ELSE Effect("awaiting", 1, <<>>)

\* /api/voice-call's second half as it would be if the provider's text
\* were logged only and left out of the response.
VoiceCallResume_NoDetails(req, o) ==
  CASE o = "reject" -> InternalError(FetchFailedText)
    [] o = "fail" ->
         Effect("done", 0,
                <<Response(500, "handler",
                           Body([error |-> "Failed to initiate call with Retell AI"]))>>)
    [] o = "ok_unparsable" -> InternalError(JsonSyntaxText)
    [] o = "ok" ->
         Effect("done", 0,
                <<Response(200, "handler",
                           Body([success |-> "true", callId |-> "call_1",
                                 message |-> "Voice call initiated successfully"]))>>)

\* /api/voice-call, from the answer of fetch() to its end.
VoiceCallResume(req, o) ==
  CASE o = "reject" -> InternalError(FetchFailedText)
    [] o = "fail" ->
         Effect("done", 0,
                <<Response(500, "handler",
                           Body([error |-> "Failed to initiate call with Retell AI",
                                 details |-> RetellDiagnostic]))>>)
    [] o = "ok_unparsable" -> InternalError(JsonSyntaxText)
    [] o = "ok" ->
         Effect("done", 0,
                <<Response(200, "handler",
                           Body([success |-> "true", callId |-> "call_1",
                                 message |-> "Voice call initiated successfully"]))>>)

\* /api/chat, from its entry to the await of fetch().
ChatEntry(req) ==
  LET mw == ExpressJson(req) IN
  IF mw.err THEN Effect("done", 0, <<ExpressError(400, JsonSyntaxText)>>)
  ELSE IF Falsy(mw.body.doc["message"]) \/ Falsy(mw.body.doc["userPhone"])
    THEN Effect("done", 0,
                <<Response(400, "handler", Body([error |-> "Message and user phone are required"]))>>)
  ELSE IF ~IsString(mw.body.doc["userPhone"])
    THEN InternalError(ReplaceTypeErrorText)
  ELSE Effect("awaiting", 1, <<>>)

\* /api/chat's second half as it would be if a failed call were issued once
\* more before the failure is reported.
ChatResume_Retries(req, o) ==
  CASE o = "reject" -> [InternalError(FetchFailedText) EXCEPT !.calls = 1]
    [] o = "fail" ->
         Effect("done", 1,
                <<Response(500, "handler",
                           Body([error |-> "Failed to get response from Savana",
                                 details |-> RetellDiagnostic]))>>)
    [] o = "ok_unparsable" -> InternalError(JsonSyntaxText)
    [] o = "ok" ->
         Effect("done", 0,
                <<Response(200, "handler",
                           Body([success |-> "true", response |-> "Hello from Savana",
                                 sessionId |-> "chat_1"]))>>)

\* /api/chat, from the answer of fetch() to its end.
ChatResume(req, o) ==
  CASE o = "reject" -> InternalError(FetchFailedText)
    [] o = "fail" ->
         Effect("done", 0,
                <<Response(500, "handler",
                           Body([error |-> "Failed to get response from Savana",
                                 details |-> RetellDiagnostic]))>>)
    [] o = "ok_unparsable" -> InternalError(JsonSyntaxText)
    [] o = "ok" ->
         Effect("done", 0,
                <<Response(200, "handler",
                           Body([success |-> "true", response |-> "Hello from Savana",
                                 sessionId |-> "chat_1"]))>>)

\* /api/create-checkout-session, from its entry to the await of
\* stripe.checkout.sessions.create(): no field is looked at before the call.
CheckoutEntry(req) ==
  LET mw == ExpressJson(req) IN
  IF mw.err THEN Effect("done", 0, <<ExpressError(400, JsonSyntaxText)>>)
  ELSE Effect("awaiting", 1, <<>>)

\* /api/create-checkout-session, from Stripe's answer to its end.
CheckoutResume(req, o) ==
  CASE o = "throw" ->
         Effect("done", 0,
                <<Response(500, "handler", Body([error |-> StripeDiagnostic]))>>)
    [] o = "ok" ->
         Effect("done", 0,
                <<Response(200, "handler", Body([sessionId |-> "cs_1"]))>>)

\* GET /api/health.
Health(req) ==
  Effect("done", 0,
         <<Response(200, "handler",
                    Body([status |-> "ok", message |-> "Server is running"]))>>)

----------------------------------------------------------------------------
(* The requests clients and providers send.                                *)

JsonRequest(endpoint, doc) ==
  [endpoint |-> endpoint, ct |-> "application/json",
   raw |-> JsonBytes(doc, FALSE), sig |-> NoSig]

\* Complete, without a user id, without a phone number, with a number for
\* the phone.
VoiceRequests ==
  {JsonRequest("voice-call", d) :
     d \in {Obj([userPhone |-> "+15551234", userId |-> "u1"]),
            Obj([userPhone |-> "+15551234"]),
            Obj([userId |-> "u1"]),
            Obj([userPhone |-> NumberValue, userId |-> "u1"])}}

ChatComplete ==
  [message |-> "hi", userPhone |-> "+15551234", userId |-> "u1", sessionId |-> "s1"]

\* Complete, or without the message, the phone number or the session id.
ChatRequests ==
  {JsonRequest("chat", d) :
     d \in {Obj(ChatComplete)}
           \cup {[Obj(ChatComplete) EXCEPT ![f] = Absent] :
                   f \in {"message", "userPhone", "sessionId"}}}

CheckoutComplete ==
  [priceId |-> "price_1", userId |-> "u1", userEmail |-> "a@b.c", planName |-> "pro"]

\* Complete, or without the price id or the email.
CheckoutRequests ==
  {JsonRequest("create-checkout-session", d) :
     d \in {Obj(CheckoutComplete)}
           \cup {[Obj(CheckoutComplete) EXCEPT ![f] = Absent] :
                   f \in {"priceId", "userEmail"}}}

HealthRequests ==
  {[endpoint |-> "health", ct |-> Absent, raw |-> NoRaw, sig |-> NoSig]}

\* The event envelopes Stripe sends: one per known tag, one of a tag the
\* server does not know, and a checkout.session.completed without data.
EventDocs ==
  {Obj([type |-> t, data |-> "object"]) :
     t \in KnownTags \cup {"customer.created"}}
  \cup {Obj([type |-> "checkout.session.completed"])}

WebhookRequest(ct, raw, sig) ==
  [endpoint |-> "stripe-webhook", ct |-> ct, raw |-> raw, sig |-> sig]

\* Stripe signs the envelope as it serialises it (JsonBytes(d, FALSE)).
\* The deliveries: the bytes as signed, with every header (none, malformed,
\* good, expired, signed with another secret); the bytes changed on the way
\* (whitespace added, or cut to something that is no JSON) under the good
\* header; and a good delivery labelled with another content type.
WebhookRequests ==
  UNION {
    {WebhookRequest("application/json", JsonBytes(d, FALSE), g) :
       g \in {NoSig, BadSig,
              V1Sig("whsec_live", JsonBytes(d, FALSE), FALSE),
              V1Sig("whsec_live", JsonBytes(d, FALSE), TRUE),
              V1Sig("whsec_other", JsonBytes(d, FALSE), FALSE)}}
    \cup
    {WebhookRequest("application/json", r, V1Sig("whsec_live", JsonBytes(d, FALSE), FALSE)) :
       r \in {JsonBytes(d, TRUE), Garbage}}
    \cup
    {WebhookRequest("text/plain", JsonBytes(d, FALSE),
                    V1Sig("whsec_live", JsonBytes(d, FALSE), FALSE))} :
    d \in EventDocs}

----------------------------------------------------------------------------
(* The state machine.                                                      *)

Init ==
  /\ env = StartupEnv
  /\ slot = [i \in Slots |-> IdleSlot]

\* Slot s after handler code with effect eff has run for it.
Apply(s, eff) ==
  [s EXCEPT !.pc = eff.next,
            !.calls = @ + eff.calls,
            !.sent = @ \o eff.sends,
            !.branch = eff.branch,
            !.acked = eff.acked,
            !.uncaught = eff.uncaught,
            !.payload = eff.payload,
            !.verr = eff.verr,
            !.exc = eff.exc]

\* Requests are numbered in the order they arrive.
Free(i) ==
  /\ slot[i].pc = "idle"
  /\ \A j \in Slots : j < i => slot[j].pc # "idle"

Arrive(i, req, eff) ==
  /\ slot' = [slot EXCEPT ![i] = Apply([IdleSlot EXCEPT !.req = req], eff)]
  /\ UNCHANGED env

Answered(i, o, eff) ==
  /\ slot' = [slot EXCEPT ![i] = Apply([slot[i] EXCEPT !.outcome = o], eff)]
  /\ UNCHANGED env

Waiting(i, endpoint) ==
  slot[i].pc = "awaiting" /\ slot[i].req.endpoint = endpoint

HealthCheck(i) ==
  /\ Free(i)
  /\ \E req \in HealthRequests : Arrive(i, req, Health(req))

VoiceCall(i) ==
  /\ Free(i)
  /\ \E req \in VoiceRequests : Arrive(i, req, VoiceCallEntry(req))

VoiceCallAnswered(i) ==
  /\ Waiting(i, "voice-call")
  /\ \E o \in FetchOutcomes : Answered(i, o, VoiceCallResume(slot[i].req, o))

Chat(i) ==
  /\ Free(i)
  /\ \E req \in ChatRequests : Arrive(i, req, ChatEntry(req))

ChatAnswered(i) ==
  /\ Waiting(i, "chat")
  /\ \E o \in FetchOutcomes : Answered(i, o, ChatResume(slot[i].req, o))

CreateCheckoutSession(i) ==
  /\ Free(i)
  /\ \E req \in CheckoutRequests : Arrive(i, req, CheckoutEntry(req))

CheckoutAnswered(i) ==
  /\ Waiting(i, "create-checkout-session")
  /\ \E o \in StripeOutcomes : Answered(i, o, CheckoutResume(slot[i].req, o))

Webhook(i) ==
  /\ Free(i)
  /\ \E req \in WebhookRequests : Arrive(i, req, StripeWebhook(req))

\* A finished request leaves the server; the server goes on listening.
Forget(i) ==
  /\ slot[i].pc = "done"
  /\ slot' = [slot EXCEPT ![i] = IdleSlot]
  /\ UNCHANGED env

Next ==
  \E i \in Slots :
    \/ HealthCheck(i)
    \/ VoiceCall(i)
    \/ VoiceCallAnswered(i)
    \/ Chat(i)
    \/ ChatAnswered(i)
    \/ CreateCheckoutSession(i)
    \/ CheckoutAnswered(i)
    \/ Webhook(i)
    \/ Forget(i)

Spec == Init /\ [][Next]_vars

----------------------------------------------------------------------------
(* Vocabulary of the properties.                                           *)

RelayEndpoints == {"voice-call", "chat", "create-checkout-session"}

WebhookDone(i) ==
  slot[i].pc = "done" /\ slot[i].req.endpoint = "stripe-webhook"

RelayDone(i) ==
  slot[i].pc = "done" /\ slot[i].req.endpoint \in RelayEndpoints

\* The header carries a signature of exactly the bytes sent, made with the
\* configured secret, with a timestamp inside the tolerance.
ValidSignature(req) ==
  /\ req.sig.kind = "v1"
  /\ req.sig.key = StartupEnv.STRIPE_WEBHOOK_SECRET
  /\ req.sig.over = req.raw
  /\ ~req.sig.expired

\* A delivery as Stripe makes it: a JSON envelope, labelled as JSON, with a
\* valid signature.
GenuineDelivery(req) ==
  /\ req.endpoint = "stripe-webhook"
  /\ req.ct = "application/json"
  /\ req.raw.kind = "json"
  /\ ValidSignature(req)

\* The one response of a finished request.
Reply(i) == slot[i].sent[1]

Rejected400(i) ==
  /\ Len(slot[i].sent) = 1
  /\ Reply(i).status = 400
  /\ Reply(i).body["text"] # Absent
  /\ slot[i].branch = "none"
  /\ ~slot[i].acked

RequiredFields(endpoint) ==
  CASE endpoint = "voice-call" -> {"userPhone", "userId"}
    [] endpoint = "chat" -> {"message", "userPhone", "userId", "sessionId"}
    [] endpoint = "create-checkout-session" ->
         {"priceId", "userId", "userEmail", "planName"}
    [] OTHER -> {}

MissingRequired(req) ==
  \E f \in RequiredFields(req.endpoint) : req.raw.doc[f] = Absent

SuccessPayload(body) ==
  \/ body["success"] # Absent
  \/ body["callId"] # Absent
  \/ body["response"] # Absent
  \/ body["sessionId"] # Absent
  \/ body["received"] # Absent

----------------------------------------------------------------------------
(* The claims.                                                             *)

\* C1: a webhook request whose signature does not verify (no header, a
\* malformed one, another secret, an expired timestamp, bytes other than
\* the signed ones) is answered with one 400 carrying an error message,
\* and no dispatch branch, known or default, runs for it.
C1_FailedVerificationRejected ==
  \A i \in Slots :
    (WebhookDone(i) /\ ~ValidSignature(slot[i].req)) => Rejected400(i)

\* C1 witness: the handler has rejected a request without a signature
\* header and a request signed with another secret.
C1_Witness ==
  \E i, j \in Slots :
    /\ WebhookDone(i) /\ slot[i].req.sig.kind = "none"
    /\ slot[i].verr = "No stripe-signature header value was provided"
    /\ Rejected400(i) /\ Reply(i).by = "handler"
    /\ WebhookDone(j) /\ slot[j].req.sig.key = "whsec_other"
    /\ slot[j].verr = "No signatures found matching the expected signature for payload"
    /\ Rejected400(j) /\ Reply(j).by = "handler"

\* C2: whenever the webhook handler hands a payload to signature
\* verification, that payload is the request body's bytes as transmitted:
\* no earlier middleware has parsed it.
C2_VerifiesRawBytes ==
  \A i \in Slots :
    (WebhookDone(i) /\ slot[i].payload.kind # "none")
      => slot[i].payload = BufferBody(slot[i].req.raw)

\* C3: a genuine delivery whose type tag is not a known one runs the
\* default branch and is answered 200 {received: true}.
C3_UnknownTagAcknowledged ==
  \A i \in Slots :
    (WebhookDone(i) /\ GenuineDelivery(slot[i].req)
       /\ slot[i].req.raw.doc["type"] \notin KnownTags)
      => /\ slot[i].sent = <<Response(200, "handler", Body([received |-> "true"]))>>
         /\ slot[i].branch = "default"

\* C4: a relay request without one of its endpoint's required fields
\* issues no outbound call and is answered 400 with an error field.
C4_MissingFieldRejected ==
  \A i \in Slots :
    (slot[i].pc # "idle" /\ slot[i].req.endpoint \in RelayEndpoints
       /\ MissingRequired(slot[i].req))
      => /\ slot[i].calls = 0
         /\ slot[i].pc = "done"
         /\ Len(slot[i].sent) = 1
         /\ Reply(i).status = 400
         /\ Reply(i).body["error"] # Absent

\* The provider answered the forwarded call, and not with success.
UpstreamFailed(i) ==
  \/ slot[i].req.endpoint \in {"voice-call", "chat"} /\ slot[i].outcome = "fail"
  \/ slot[i].req.endpoint = "create-checkout-session" /\ slot[i].outcome = "throw"

ProviderDiagnostic(endpoint) ==
  IF endpoint = "create-checkout-session" THEN StripeDiagnostic ELSE RetellDiagnostic

\* C5 as stated: on every relay endpoint an upstream failure is answered
\* 500 with an error field and the provider's text under details, and no
\* success payload.
C5_DetailsOnEveryEndpoint ==
  \A i \in Slots :
    (RelayDone(i) /\ UpstreamFailed(i))
      => /\ Len(slot[i].sent) = 1
         /\ Reply(i).status = 500
         /\ Reply(i).body["error"] # Absent
         /\ Reply(i).body["details"] = ProviderDiagnostic(slot[i].req.endpoint)
         /\ ~SuccessPayload(Reply(i).body)

\* C5 as amended: an upstream failure is answered 500 with an error field
\* and no success payload; the call-initiation and chat endpoints put the
\* provider's text under details, the checkout endpoint puts it in the
\* error field itself and sends no details.
C5_UpstreamFailureSurfaced ==
  \A i \in Slots :
    (RelayDone(i) /\ UpstreamFailed(i))
      => /\ Len(slot[i].sent) = 1
         /\ Reply(i).status = 500
         /\ Reply(i).body["error"] # Absent
         /\ ~SuccessPayload(Reply(i).body)
         /\ IF slot[i].req.endpoint = "create-checkout-session"
              THEN /\ Reply(i).body["error"] = StripeDiagnostic
                   /\ Reply(i).body["details"] = Absent
              ELSE Reply(i).body["details"] = RetellDiagnostic

\* C5 witness: a checkout request and a call-initiation request have both
\* been answered after their provider failed.
C5_Witness ==
  \E i, j \in Slots :
    /\ RelayDone(i) /\ UpstreamFailed(i)
    /\ slot[i].req.endpoint = "create-checkout-session"
    /\ RelayDone(j) /\ UpstreamFailed(j)
    /\ slot[j].req.endpoint = "voice-call"
    /\ Reply(j).body["details"] = RetellDiagnostic

\* C6: every genuine delivery ends with the success acknowledgement having
\* been attempted, whatever its dispatch branch did.
C6_VerifiedAlwaysAcknowledged ==
  \A i \in Slots :
    (WebhookDone(i) /\ GenuineDelivery(slot[i].req)) => slot[i].acked

\* C7: no exception leaves a handler uncaught, and the response to a
\* request in which an unexpected exception was raised is a 500 that does
\* not carry the exception's text.
C7_GenericInternalError ==
  \A i \in Slots :
    slot[i].pc = "done" =>
      /\ ~slot[i].uncaught
      /\ slot[i].exc # Absent =>
           /\ Len(slot[i].sent) = 1
           /\ Reply(i).status = 500
           /\ \A f \in RespFields : Reply(i).body[f] # slot[i].exc

\* The header signs, with the configured secret and a fresh timestamp,
\* bytes other than the ones that arrived.
ChangedAfterSigning(req) ==
  /\ req.sig.kind = "v1"
  /\ req.sig.key = StartupEnv.STRIPE_WEBHOOK_SECRET
  /\ ~req.sig.expired
  /\ req.sig.over # req.raw

SamePair(r1, r2) ==
  /\ r1.raw = r2.raw
  /\ r1.sig.kind = r2.sig.kind
  /\ r1.sig.key = r2.sig.key
  /\ r1.sig.over = r2.sig.over

C10_OneCallOneResponse ==
  \A i \in Slots :
    slot[i].req.endpoint \in RelayEndpoints =>
      /\ slot[i].calls <= 1
      /\ Len(slot[i].sent) <= 1
      /\ slot[i].pc = "awaiting" => (slot[i].calls = 1 /\ Len(slot[i].sent) = 0)
      /\ slot[i].pc = "done" => Len(slot[i].sent) = 1

\* C10 witness: a chat request has been answered after its provider
\* failed, having called it once, while a request to another endpoint is
\* still awaiting its provider.
C10_Witness ==
  \E i, j \in Slots :
    /\ RelayDone(i) /\ slot[i].req.endpoint = "chat"
    /\ slot[i].outcome \in {"fail", "reject"}
    /\ slot[i].calls = 1 /\ Len(slot[i].sent) = 1
    /\ slot[j].pc = "awaiting" /\ slot[j].req.endpoint = "voice-call"

====
